---- MODULE Spec2Model ----
(***************************************************************************)
(* Model of turing_machine.py: the TuringMachine class (transition list,   *)
(* tape, head, state) and the driver under  if __name__ == "__main__"      *)
(* that builds the machine from a file and evaluates its test cases.       *)
(*                                                                         *)
(* Strings are sequences of one-character strings; a symbol token is one   *)
(* character.  Python's orderings, indexing (negative indices included),   *)
(* str/list typing of the tape and exceptions are modelled as the          *)
(* interpreter computes them.  Indices (head, list positions) are 0-based  *)
(* as in the source; TLA+ sequences are 1-based, hence the "+ 1".          *)
(***************************************************************************)
EXTENDS Integers, Sequences, FiniteSets, TLC

\* ------------------------------------------------------------- bounds
\* longest raw input line of a test case
MaxInput == 2
\* most steps of the while loop explored in one evaluate() call
MaxSteps == 3
\* the number of test cases (ntapes) read from the file
MaxCases == 2

\* ---------------------------------------------------- characters, strings
\* the state that ends the loop of evaluate()
HaltState == -1

Digits == <<"0", "1", "2", "3", "4", "5", "6", "7", "8", "9">>

\* characters that str.rstrip() removes
Whitespace == {" "}

\* ord() of the characters the model uses (ASCII)
Ord(c) ==
    CASE c = " " -> 32
      [] c = "-" -> 45
      [] c = "0" -> 48
      [] c = "1" -> 49
      [] c = "2" -> 50
      [] c = "3" -> 51
      [] c = "4" -> 52
      [] c = "5" -> 53
      [] c = "6" -> 54
      [] c = "7" -> 55
      [] c = "8" -> 56
      [] c = "9" -> 57
      [] c = "_" -> 95
      [] c = "x" -> 120

RECURSIVE StrOfNat(_)
\* the decimal text of a natural number, as it stands in the file
StrOfNat(n) ==
    IF n < 10 THEN <<Digits[n + 1]>>
    ELSE Append(StrOfNat(n \div 10), Digits[(n % 10) + 1])

\* the decimal text of an integer
StrOfInt(n) == IF n < 0 THEN <<"-">> \o StrOfNat(0 - n) ELSE StrOfNat(n)

RECURSIVE NatOfStr(_)
NatOfStr(s) ==
    IF s = <<>> THEN 0
    ELSE 10 * NatOfStr(SubSeq(s, 1, Len(s) - 1)) + (Ord(s[Len(s)]) - Ord("0"))

\* int(text) for the decimal text of an integer
PyInt(s) == IF s[1] = "-" THEN 0 - NatOfStr(Tail(s)) ELSE NatOfStr(s)

RECURSIVE StrLess(_, _)
\* a < b for two Python 2 byte strings: lexicographic by character code
StrLess(a, b) ==
    IF b = <<>> THEN FALSE
    ELSE IF a = <<>> THEN TRUE
    ELSE IF Ord(a[1]) # Ord(b[1]) THEN Ord(a[1]) < Ord(b[1])
    ELSE StrLess(Tail(a), Tail(b))

RECURSIVE rstrip(_)
\* str.rstrip(): the string without its trailing whitespace
rstrip(s) ==
    IF s = <<>> THEN <<>>
    ELSE IF s[Len(s)] \in Whitespace THEN rstrip(SubSeq(s, 1, Len(s) - 1))
    ELSE s

\* ------------------------------------------------------- Python lists
\* whether list[idx] exists: Python accepts -len <= idx < len
PyHasItem(list, idx) == (0 - Len(list)) <= idx /\ idx < Len(list)

\* list[idx], a negative idx counting from the end
PyGetItem(list, idx) ==
    IF idx < 0 THEN list[Len(list) + idx + 1] ELSE list[idx + 1]

\* a faulty list[idx] = v that always assigns the first element
PySetItemFirst(list, idx, v) == [list EXCEPT ![1] = v]

\* list[idx] = v, a negative idx counting from the end
PySetItem(list, idx, v) ==
    IF idx < 0 THEN [list EXCEPT ![Len(list) + idx + 1] = v]
    ELSE [list EXCEPT ![idx + 1] = v]

\* whether x is an element of the list
PyContains(list, x) == \E k \in 1..Len(list) : list[k] = x

\* a faulty list.index(x) that answers 0 for an x that is not in the list
PyIndexDefault(list, x) ==
    IF PyContains(list, x)
    THEN (CHOOSE k \in 1..Len(list) :
            list[k] = x /\ \A j \in 1..(k - 1) : list[j] # x) - 1
    ELSE 0

\* a faulty list.index(x) that answers the last position for an x that is
\* not in the list
PyIndexLast(list, x) ==
    IF PyContains(list, x)
    THEN (CHOOSE k \in 1..Len(list) :
            list[k] = x /\ \A j \in 1..(k - 1) : list[j] # x) - 1
    ELSE Len(list) - 1

\* list.index(x): the 0-based position of the first element equal to x;
\* -1 stands for the ValueError it raises when there is none
PyIndex(list, x) ==
    IF PyContains(list, x)
    THEN (CHOOSE k \in 1..Len(list) :
            list[k] = x /\ \A j \in 1..(k - 1) : list[j] # x) - 1
    ELSE 0 - 1

\* ------------------------------------------------------------ the table
\* one line of the file split into its five fields
MkRow(s, c, w, m, nx) == <<StrOfNat(s), c, w, m, StrOfInt(nx)>>

\* itemgetter(0,1) keys compared as Python compares tuples of strings
KeyLess(a, b) ==
    \/ StrLess(a[1], b[1])
    \/ a[1] = b[1] /\ StrLess(<<a[2]>>, <<b[2]>>)

RECURSIVE InsertStable(_, _)
\* x put into a sorted list behind every element whose key is not greater
InsertStable(list, x) ==
    IF list = <<>> THEN <<x>>
    ELSE IF KeyLess(x, list[Len(list)])
         THEN Append(InsertStable(SubSeq(list, 1, Len(list) - 1), x), list[Len(list)])
         ELSE Append(list, x)

RECURSIVE sortTransitions(_)
\* sorted(list, key=itemgetter(0,1)): a stable sort by the first two fields
sortTransitions(list) ==
    IF list = <<>> THEN <<>>
    ELSE InsertStable(sortTransitions(SubSeq(list, 1, Len(list) - 1)), list[Len(list)])

\* a faulty index that counts the symbol positions from 1
TableIndexFromOne(s, m, charId) == s * m + charId + 1

\* the index evaluate() computes for a state and a symbol position
TableIndex(s, m, charId) == s * m + charId


\* ------------------------------------------------------------ the state
VARIABLES
    nstates,      \* self.nstates
    nsymbols,     \* self.nsymbols
    symbols,      \* self.symbols: the alphabet in its declared order
    transitions,  \* self.transitions: the list of rows
    tape,         \* self.tape
    tapeKind,     \* type of self.tape: "str" or "list"
    head,         \* self.head
    state,        \* self.state
    transition,   \* evaluate()'s local: fields 2..4 of the row it looked up,
                  \* <<>> outside a call
    steps,        \* iterations of the while loop completed in this call
    pc,           \* where the driver is: "build", "cases", "eval", "done", "crashed"
    err,          \* the exception that ended the process, "none" if none
    ntapes,       \* the driver's number of test cases
    i,            \* the driver's case index
    input,        \* the driver's local tape: the case's line, stripped
    ret           \* the driver's local ret: "none", "True" or "False"

vars == <<nstates, nsymbols, symbols, transitions, tape, tapeKind, head, state,
          transition, steps, pc, err, ntapes, i, input, ret>>

machine == <<nstates, nsymbols, symbols, transitions>>
config == <<tape, tapeKind, head, state, transition, steps>>
driver == <<ntapes, i, input, ret>>

\* ------------------------------------------------- what the file may hold
\* the declared alphabets: the blank is symbols[0]
Alphabets == {<<"_", "1">>, <<"1", "_">>}

\* the characters of a test case's line before its trailing whitespace:
\* the symbols and one character outside every alphabet
InputChars == {"_", "1", "x"}

Moves == {"d", "i", "q"}

\* the numbers of states (nstates) a file declares
StateCounts == {1, 2}

RECURSIVE SeqsUpTo(_, _)
SeqsUpTo(S, n) ==
    IF n = 0 THEN {<<>>}
    ELSE LET shorter == SeqsUpTo(S, n - 1)
         IN shorter \cup {Append(q, c) : q \in {r \in shorter : Len(r) = n - 1}, c \in S}

\* the raw lines of the test cases, with or without trailing whitespace
Lines ==
    LET cores == SeqsUpTo(InputChars, MaxInput)
    IN cores \cup {Append(c, " ") : c \in {r \in cores : Len(r) < MaxInput}}

Range(f) == {f[k] : k \in DOMAIN f}

\* the rows the file may hold for a machine of n states over syms.  For
\* state 0: every row that writes a symbol of the alphabet, makes a move and
\* goes on to a state of the machine or halts, and the rows that jump to the
\* undeclared state n.  For the other states: the rows that halt in place.
RowPool(n, syms) ==
    {MkRow(0, c, w, m, nx) :
        c \in Range(syms), w \in Range(syms), m \in Moves, nx \in HaltState..(n - 1)}
    \cup {MkRow(0, c, c, "q", n) : c \in Range(syms)}
    \cup {MkRow(s, c, c, "q", HaltState) : s \in 1..(n - 1), c \in Range(syms)}

\* the files explored give state 0 at most one row for each symbol; the rows
\* of the other states may repeat, which leaves other pairs without a row
FileAllows(table, row) ==
    row[1] = StrOfNat(0) =>
        \A k \in 1..Len(table) : ~(table[k][1] = row[1] /\ table[k][2] = row[2])

\* -------------------------------------------------------- the machine
\* a faulty loop condition that also gives up after two iterations
LoopCondStepBudget(s) == s # HaltState /\ steps < 2

\* a faulty loop condition that tests for another sentinel
LoopCondOtherSentinel(s) == s # HaltState - 1

\* the condition of evaluate()'s while loop
LoopCond(s) == s # HaltState

\* a faulty setTape(x) that leaves the state where it was
setTapeKeepsState(x) == [tape |-> rstrip(x), tapeKind |-> "str", head |-> 0, state |-> state]

\* a faulty setTape(x) that leaves the head where it was
setTapeKeepsHead(x) == [tape |-> rstrip(x), tapeKind |-> "str", head |-> head, state |-> 0]

\* setTape(x): the configuration it leaves
setTape(x) == [tape |-> rstrip(x), tapeKind |-> "str", head |-> 0, state |-> 0]

\* a faulty right move that extends the tape wherever the head is
MoveRightAlwaysAppends(tp, h, blank) ==
    [err |-> "none",
     head |-> h + 1,
     tape |-> Append(tp, blank),
     tapeKind |-> "list"]

\* a faulty right move that extends the tape with a space
MoveRightAppendsSpace(tp, h, blank) ==
    [err |-> "none",
     head |-> h + 1,
     tape |-> IF h + 1 = Len(tp) THEN Append(tp, " ") ELSE tp,
     tapeKind |-> "list"]

\* a faulty right move that extends the tape with a copy of its last cell
MoveRightCopiesCell(tp, h, blank) ==
    [err |-> "none",
     head |-> h + 1,
     tape |-> IF h + 1 = Len(tp) THEN Append(tp, tp[Len(tp)]) ELSE tp,
     tapeKind |-> "list"]

\* a faulty right move that tests the head before it is advanced
MoveRightLateExtension(tp, h, blank) ==
    [err |-> "none",
     head |-> h + 1,
     tape |-> IF h = Len(tp) THEN Append(tp, blank) ELSE tp,
     tapeKind |-> "list"]

\* the right move: the head, and the tape extended when the head left it
MoveRight(tp, h, blank) ==
    [err |-> "none",
     head |-> h + 1,
     tape |-> IF h + 1 = Len(tp) THEN Append(tp, blank) ELSE tp,
     tapeKind |-> "list"]

\* the left move: self.symbols[0] (a str) + self.tape raises TypeError
\* unless the tape is a str too
MoveLeft(tp, kind, h, blank) ==
    IF h - 1 = -1
    THEN IF kind = "str"
         THEN [err |-> "none", head |-> 0, tape |-> <<blank>> \o tp, tapeKind |-> "str"]
         ELSE [err |-> "TypeError", head |-> h - 1, tape |-> tp, tapeKind |-> kind]
    ELSE [err |-> "none", head |-> h - 1, tape |-> tp, tapeKind |-> kind]

\* the move of one step on the tape already written (a list)
Move(tp, h, mov, blank) ==
    IF mov = "d" THEN MoveRight(tp, h, blank)
    ELSE IF mov = "i" THEN MoveLeft(tp, "list", h, blank)
    ELSE [err |-> "none", head |-> h, tape |-> tp, tapeKind |-> "list"]

\* the row evaluate() reads for state s and the symbol at position charId
Lookup(table, s, m, charId) == PyGetItem(table, TableIndex(s, m, charId))

\* whether that read is inside the list
LookupOk(table, s, m, charId) == PyHasItem(table, TableIndex(s, m, charId))

\* a faulty checkAccepted() that looks at the first cell of the tape
checkAcceptedFirstCell(tp, h, syms) ==
    IF PyGetItem(tp, 0) = syms[1] THEN "False" ELSE "True"

\* checkAccepted(): False when the cell under the head is symbols[0]
checkAccepted(tp, h, syms) ==
    IF PyGetItem(tp, h) = syms[1] THEN "False" ELSE "True"

\* the configuration an exception leaves behind
Raise(e, tp, kind, h, s, tr) ==
    [err |-> e, tape |-> tp, tapeKind |-> kind, head |-> h, state |-> s, transition |-> tr]

\* one iteration of the while loop of evaluate()
StepOutcome(tp, kind, h, s, tr) ==
    IF ~PyHasItem(tp, h) THEN Raise("IndexError", tp, kind, h, s, tr)
    ELSE LET char == PyGetItem(tp, h) IN
    LET charId == PyIndex(symbols, char) IN
    IF charId < 0 THEN Raise("ValueError", tp, kind, h, s, tr)
    ELSE IF ~LookupOk(transitions, s, nsymbols, charId)
    THEN Raise("IndexError", tp, kind, h, s, tr)
    ELSE LET t == SubSeq(Lookup(transitions, s, nsymbols, charId), 3, 5)
             written == PySetItem(tp, h, t[1])
             mv == Move(written, h, t[2], symbols[1])
         IN IF mv.err # "none"
            THEN Raise(mv.err, mv.tape, mv.tapeKind, mv.head, s, t)
            ELSE [err |-> "none", tape |-> mv.tape, tapeKind |-> mv.tapeKind,
                  head |-> mv.head, state |-> PyInt(t[3]), transition |-> t]

\* ------------------------------------------------------------- actions
Init ==
    /\ nstates \in StateCounts
    /\ symbols \in Alphabets
    /\ nsymbols = Len(symbols)
    /\ transitions = <<>>
    /\ tape = <<>>
    /\ tapeKind = "list"
    /\ head = 0
    /\ state = 0
    /\ transition = <<>>
    /\ steps = 0
    /\ pc = "build"
    /\ err = "none"
    /\ ntapes = 0
    /\ i = 0
    /\ input = <<>>
    /\ ret = "none"

\* machine.addTransition(file.readline().split()), n*m times
AddTransition ==
    /\ pc = "build"
    /\ Len(transitions) < nstates * nsymbols
    /\ \E row \in RowPool(nstates, symbols) :
          /\ FileAllows(transitions, row)
          /\ transitions' = sortTransitions(Append(transitions, row))
    /\ UNCHANGED <<nstates, nsymbols, symbols, config, pc, err, driver>>

\* the table is printed and the number of cases read
ReadCases ==
    /\ pc = "build"
    /\ Len(transitions) = nstates * nsymbols
    /\ ntapes' = MaxCases
    /\ pc' = "cases"
    /\ UNCHANGED <<machine, config, err, i, input, ret>>

\* a faulty load whose setTape() also empties the list of rows
LoadCaseClearsTable ==
    /\ pc = "cases"
    /\ i < ntapes
    /\ \E line \in Lines :
          LET x == rstrip(line)
              c == setTape(x)
          IN /\ input' = x
             /\ tape' = c.tape
             /\ tapeKind' = c.tapeKind
             /\ head' = c.head
             /\ state' = c.state
    /\ steps' = 0
    /\ pc' = "eval"
    /\ transitions' = <<>>
    /\ UNCHANGED <<nstates, nsymbols, symbols, transition, err, ntapes, i, ret>>

\* a case's line is read and stripped, and machine.setTape() is called
LoadCase ==
    /\ pc = "cases"
    /\ i < ntapes
    /\ \E line \in Lines :
          LET x == rstrip(line)
              c == setTape(x)
          IN /\ input' = x
             /\ tape' = c.tape
             /\ tapeKind' = c.tapeKind
             /\ head' = c.head
             /\ state' = c.state
    /\ steps' = 0
    /\ pc' = "eval"
    /\ UNCHANGED <<machine, transition, err, ntapes, i, ret>>

\* one iteration of evaluate()'s loop; an exception is not caught anywhere
\* and ends the process
Step ==
    /\ pc = "eval"
    /\ LoopCond(state)
    /\ steps < MaxSteps
    /\ LET o == StepOutcome(tape, tapeKind, head, state, transition)
       IN /\ tape' = o.tape
          /\ tapeKind' = o.tapeKind
          /\ head' = o.head
          /\ state' = o.state
          /\ transition' = o.transition
          /\ err' = o.err
          /\ pc' = IF o.err = "none" THEN "eval" ELSE "crashed"
          /\ steps' = IF o.err = "none" THEN steps + 1 ELSE steps
    /\ UNCHANGED <<machine, driver>>

\* the loop is left, checkAccepted() gives the verdict, the driver prints
\* it and goes to the next case
Halt ==
    /\ pc = "eval"
    /\ ~LoopCond(state)
    /\ IF PyHasItem(tape, head)
       THEN /\ ret' = checkAccepted(tape, head, symbols)
            /\ i' = i + 1
            /\ pc' = "cases"
            /\ err' = err
            /\ transition' = <<>>
       ELSE /\ err' = "IndexError"
            /\ pc' = "crashed"
            /\ UNCHANGED <<ret, i, transition>>
    /\ UNCHANGED <<machine, tape, tapeKind, head, state, steps, ntapes, input>>

\* every case was evaluated: file.close()
Finish ==
    /\ pc = "cases"
    /\ i = ntapes
    /\ pc' = "done"
    /\ UNCHANGED <<machine, config, err, driver>>

Next ==
    \/ AddTransition
    \/ ReadCases
    \/ LoadCase
    \/ Step
    \/ Halt
    \/ Finish

Spec == Init /\ [][Next]_vars


\* ------------------------------------------------- state of the next step
\* evaluate() is about to run an iteration of its loop
StepReady == pc = "eval" /\ LoopCond(state)

\* the cell the iteration reads
CurChar == PyGetItem(tape, head)

\* ... and the read finds a symbol of the alphabet under the head
ReadsSymbol ==
    StepReady /\ PyHasItem(tape, head) /\ PyContains(symbols, CurChar)

\* ... and the computed index is inside the list of rows
LooksUp ==
    ReadsSymbol /\ LookupOk(transitions, state, nsymbols, PyIndex(symbols, CurChar))

\* the row the iteration reads
CurRow == Lookup(transitions, state, nsymbols, PyIndex(symbols, CurChar))

\* the positions of the rows inserted for state s and symbol c
RowsFor(s, c) ==
    {k \in 1..Len(transitions) :
        transitions[k][1] = StrOfNat(s) /\ transitions[k][2] = c}

\* exactly one row for every state of the machine and symbol of the alphabet
CompleteTable ==
    /\ Len(transitions) = nstates * nsymbols
    /\ \A s \in 0..(nstates - 1), c \in Range(symbols) : Cardinality(RowsFor(s, c)) = 1

\* -------------------------------------------------------------- claims
\* C1: with a complete table, inserted in any order under any declared order
\* of the alphabet, the step taken in state s on symbol c uses the row that
\* was inserted for s and c.
C1_StepUsesInsertedRow ==
    [][(LooksUp /\ CompleteTable)
         => \E k \in RowsFor(state, CurChar) :
               transition' = SubSeq(transitions[k], 3, 5)]_vars

\* C2: a left move with the head at index 0 completes without error: the head
\* is 0, the tape one cell longer, its first cell the blank, and the old
\* cells (the written one included) follow it.
C2_LeftMoveAtZeroExtends ==
    [][(LooksUp /\ CurRow[4] = "i" /\ head = 0)
         => /\ pc' = "eval"
            /\ err' = "none"
            /\ head' = 0
            /\ tape' = <<symbols[1]>> \o PySetItem(tape, head, CurRow[3])]_vars

\* C3: a right move from the last index appends exactly one blank and leaves
\* the head on it; a right move from any other index adds 1 to the head and
\* keeps the length of the tape.
C3_RightMove ==
    [][(LooksUp /\ CurRow[4] = "d")
         => IF head = Len(tape) - 1
            THEN /\ tape' = Append(PySetItem(tape, head, CurRow[3]), symbols[1])
                 /\ head' = Len(tape') - 1
            ELSE /\ head' = head + 1
                 /\ Len(tape') = Len(tape)]_vars

\* a right move has just left the input's last cell and extended the tape
C3_Witness ==
    /\ pc = "eval"
    /\ steps = Len(input)
    /\ steps >= 1
    /\ transition[2] = "d"
    /\ Len(tape) = Len(input) + 1
    /\ head = Len(tape) - 1
    /\ tape[Len(tape)] = symbols[1]

\* C4: after every completed move of evaluate() the head is on a cell of the
\* tape: 0 <= head < len(tape).
C4_HeadOnTape ==
    (pc \in {"eval", "cases", "done"} /\ steps >= 1)
        => (0 <= head /\ head < Len(tape))

\* a right move and then a left move have completed, the head back at 0
C4_Witness ==
    /\ pc = "eval"
    /\ steps = 2
    /\ transition[2] = "i"
    /\ head = 0
    /\ Len(tape) = 2

\* C5: the verdict is False exactly when the cell under the head of the
\* halted configuration is the blank, and True otherwise; it is a function
\* of that cell alone.
C5_VerdictIsHeadCell ==
    (pc \in {"cases", "done"} /\ i >= 1)
        => /\ ret \in {"True", "False"}
           /\ (ret = "False") <=> (tape[head + 1] = symbols[1])

\* a run halted with the head away from cell 0, on a non-blank cell whose
\* tape also holds a blank: accepted
C5_Witness ==
    /\ pc = "cases"
    /\ i >= 1
    /\ head >= 1
    /\ tape[head + 1] # symbols[1]
    /\ tape[1] = symbols[1]
    /\ ret = "True"

\* C6: an iteration runs only in a state other than the sentinel, the verdict
\* is computed only in the sentinel state, and once the state is the sentinel
\* the next thing evaluate() does is to return the verdict.
C6_HaltsAtSentinel ==
    [][/\ (steps' = steps + 1 \/ pc' = "crashed") => state # HaltState
       /\ (i' = i + 1) => state = HaltState
       /\ (pc = "eval" /\ state = HaltState)
            => (i' = i + 1 /\ pc' = "cases" /\ tape' = tape /\ head' = head)]_vars

\* a run returned its verdict after two iterations
C6_Witness ==
    /\ pc = "cases"
    /\ i >= 1
    /\ steps = 2
    /\ state = HaltState

\* C7: setTape(x), whatever ran before, leaves state 0, head 0 and the tape
\* x without its trailing whitespace.
C7_SetTapeResets ==
    (pc = "eval" /\ steps = 0 /\ err = "none")
        => /\ state = 0
           /\ head = 0
           /\ tape = rstrip(input)
           /\ tapeKind = "str"

\* the second case loaded after a run that halted
C7_Witness ==
    /\ pc = "eval"
    /\ steps = 0
    /\ i = 1
    /\ ret # "none"
    /\ state = 0
    /\ head = 0
    /\ tape = input
    /\ tape # <<>>

\* C8: an error raised while a case is evaluated ends that case only: the
\* process lives on to load and evaluate the later cases.
C8_ErrorEndsOnlyItsCase ==
    (err # "none") => (pc \in {"cases", "eval", "done"})

\* C9: a step that reaches a state and symbol with no inserted row fails with
\* an error and changes nothing.
C9_MissingRowRaises ==
    [][(ReadsSymbol /\ RowsFor(state, CurChar) = {})
         => /\ pc' = "crashed"
            /\ err' = "IndexError"
            /\ tape' = tape /\ head' = head /\ state' = state]_vars

\* C10 as stated: with a character outside the alphabet anywhere in the
\* loaded input, the first step fails with ValueError before it writes,
\* moves or changes the state.
C10_UnknownAnywhereFailsFirstStep ==
    [][(pc = "eval" /\ steps = 0 /\ LoopCond(state)
          /\ \E k \in 1..Len(tape) : ~PyContains(symbols, tape[k]))
         => /\ pc' = "crashed"
            /\ err' = "ValueError"
            /\ tape' = tape /\ head' = head /\ state' = state]_vars

\* C10 amended: with a character outside the alphabet in the first cell of
\* the loaded input, the first step fails with ValueError before it writes,
\* moves or changes the state.
C10_UnknownFirstFailsFirstStep ==
    [][(pc = "eval" /\ steps = 0 /\ LoopCond(state)
          /\ tape # <<>> /\ ~PyContains(symbols, tape[1]))
         => /\ pc' = "crashed"
            /\ err' = "ValueError"
            /\ tape' = tape /\ head' = head /\ state' = state]_vars

\* the first step of a run failed on the unknown first character of a
\* two-character input
C10_Witness ==
    /\ pc = "crashed"
    /\ err = "ValueError"
    /\ steps = 0
    /\ head = 0
    /\ state = 0
    /\ tape = input
    /\ Len(tape) = 2
    /\ ~PyContains(symbols, tape[1])

\* C11: a step whose cell under the head holds a character outside the
\* alphabet fails with an error and leaves state, head and tape as they were.
C11_UnknownSymbolStepChangesNothing ==
    [][(StepReady /\ PyHasItem(tape, head) /\ ~PyContains(symbols, CurChar))
         => /\ pc' = "crashed"
            /\ err' = "ValueError"
            /\ tape' = tape /\ tapeKind' = tapeKind
            /\ head' = head /\ state' = state]_vars

\* a run failed on an unknown character it reached after a completed step
C11_Witness ==
    /\ pc = "crashed"
    /\ err = "ValueError"
    /\ steps >= 1
    /\ head >= 1
    /\ state = 0
    /\ ~PyContains(symbols, tape[head + 1])

\* C12: once the table is built, no load and no step of a run changes the
\* rows, the alphabet, nstates or nsymbols: the lookup of every state and
\* symbol position gives the same row before and after.
C12_TableIsNeverModified ==
    [][(pc # "build")
         => /\ transitions' = transitions
            /\ symbols' = symbols
            /\ nstates' = nstates
            /\ nsymbols' = nsymbols
            /\ \A s \in 0..(nstates - 1), k \in 0..(nsymbols - 1) :
                  LookupOk(transitions, s, nsymbols, k)
                     => /\ LookupOk(transitions', s, nsymbols', k)
                        /\ Lookup(transitions', s, nsymbols', k)
                             = Lookup(transitions, s, nsymbols, k)]_vars

\* the second case is being evaluated, one run and two loads behind it
C12_Witness ==
    /\ pc = "eval"
    /\ i = 1
    /\ steps >= 1
    /\ Len(transitions) = nstates * nsymbols
    /\ nstates = 2

\* the unary-increment machine: alphabet ['_', '1'], 2 states, (0,'1') ->
\* write '1', right, state 0; (0,'_') -> write '1', stay, halt; the rows
\* of state 1 halt in place
UnaryTable ==
    /\ nstates = 2
    /\ symbols = <<"_", "1">>
    /\ Len(transitions) = 4
    /\ Range(transitions) =
          {MkRow(0, "1", "1", "d", 0), MkRow(0, "_", "1", "q", HaltState),
           MkRow(1, "_", "_", "q", HaltState), MkRow(1, "1", "1", "q", HaltState)}

\* a string of n >= 1 ones
AllOnes(s) == s # <<>> /\ \A k \in 1..Len(s) : s[k] = "1"

\* C13: the unary-increment machine, run on n >= 1 ones, does not fail and
\* halts with n+1 ones on the tape, the head on a non-blank cell and the
\* verdict accepted ("11" gives "111").
C13_UnaryIncrement ==
    (UnaryTable /\ AllOnes(input) /\ (pc = "crashed" \/ (pc \in {"cases", "done"} /\ i >= 1)))
        => /\ pc # "crashed"
           /\ tape = Append(input, "1")
           /\ tape[head + 1] # symbols[1]
           /\ ret = "True"

\* what evaluate() leaves when it is run for at most n iterations from the
\* configuration (tp, kind, h, s): running, halted or crashed
RECURSIVE RunFrom(_, _, _, _, _)
RunFrom(tp, kind, h, s, n) ==
    IF ~LoopCond(s) THEN [status |-> "halted", tape |-> tp, head |-> h]
    ELSE IF n = 0 THEN [status |-> "running", tape |-> tp, head |-> h]
    ELSE LET o == StepOutcome(tp, kind, h, s, <<>>)
         IN IF o.err # "none" THEN [status |-> "crashed", tape |-> o.tape, head |-> o.head]
            ELSE RunFrom(o.tape, o.tapeKind, o.head, o.state, n - 1)

\* C14: the outcome of every case evaluated on the reused machine (final
\* tape, final head, verdict) is the outcome of a run of the same table
\* started fresh on that case's input, whatever cases ran before it.
C14_OutcomeDependsOnInputOnly ==
    (pc \in {"cases", "done"} /\ i >= 1)
        => LET r == RunFrom(input, "str", 0, 0, MaxSteps)
           IN /\ r.status = "halted"
              /\ r.tape = tape
              /\ r.head = head
              /\ ret = checkAccepted(r.tape, r.head, symbols)

\* the second case has halted after moving the head
C14_Witness ==
    /\ pc = "cases"
    /\ i = 2
    /\ steps >= 2
    /\ head >= 1
    /\ ret = "False"

\* no row of the table names the sentinel as its next state
NoHaltRow == \A k \in 1..Len(transitions) : PyInt(transitions[k][5]) # HaltState

\* every character of the case's input is a symbol of the alphabet
InputInAlphabet == \A k \in 1..Len(input) : PyContains(symbols, input[k])

\* C15: evaluate() returns a verdict only from the sentinel state, every
\* iteration counts as one step and the return adds none, so a run that
\* reaches the sentinel after k steps returns after exactly k steps; with a
\* complete table that has no row leading to the sentinel no verdict is ever
\* returned.
C15_ReturnsOnlyAtSentinel ==
    [][/\ (i' = i + 1)
            => (pc = "eval" /\ state = HaltState /\ steps' = steps /\ steps >= 1)
       /\ (pc = "eval" /\ pc' = "eval")
            => (state # HaltState /\ steps' = steps + 1)
       /\ (pc = "eval" /\ state # HaltState /\ pc' = "eval" /\ state' = HaltState)
            => (i' = i /\ ret' = ret)
       /\ (CompleteTable /\ NoHaltRow) => (i' = 0 /\ pc' # "done")]_vars

\* with a complete table without a halting row, a run on a non-empty input
\* over the alphabet is still going after every step explored
C15_Witness ==
    /\ CompleteTable
    /\ NoHaltRow
    /\ InputInAlphabet
    /\ input # <<>>
    /\ pc = "eval"
    /\ steps = MaxSteps
    /\ i = 0

\* every row of the table writes a symbol of the alphabet
WritesInAlphabet == \A k \in 1..Len(transitions) : PyContains(symbols, transitions[k][3])

\* every cell of the tape holds a symbol of the alphabet
TapeInAlphabet == \A k \in 1..Len(tape) : PyContains(symbols, tape[k])

\* C16: with an input over the alphabet and rows that write symbols of the
\* alphabet, every cell of the tape holds a symbol of the alphabet after
\* every load and every step, and a cell that a step adds is the blank.
C16_TapeStaysInAlphabet ==
    [][(pc' # "build" /\ InputInAlphabet' /\ WritesInAlphabet')
         => /\ TapeInAlphabet'
            /\ (pc = "eval" /\ Len(tape') > Len(tape))
                 => /\ Len(tape') = Len(tape) + 1
                    /\ tape'[Len(tape')] = symbols[1]
                    /\ \A k \in 1..Len(tape) : PyContains(symbols, tape'[k])]_vars

\* a run on an input over the alphabet has written a cell and extended the tape
C16_Witness ==
    /\ pc = "eval"
    /\ InputInAlphabet
    /\ steps >= 1
    /\ Len(tape) = Len(input) + 1
    /\ \E k \in 1..Len(input) : tape[k] # input[k]
    /\ TapeInAlphabet

\* C17: a step writes the row's write symbol into the cell that was under the
\* head and into no other cell: the old cells keep their values and order
\* (behind at most one prepended cell), and a stay move keeps the head and
\* the length of the tape.
C17_StepWritesHeadCellOnly ==
    [][LooksUp
         => LET written == [tape EXCEPT ![head + 1] = CurRow[3]]
            IN /\ \E shift \in {0, 1} :
                     /\ Len(tape') >= Len(tape) + shift
                     /\ \A k \in 1..Len(tape) : tape'[k + shift] = written[k]
               /\ (CurRow[4] = "q")
                    => (head' = head /\ Len(tape') = Len(tape))]_vars

\* a stay move has just changed the cell under a head that is not on cell 0
C17_Witness ==
    /\ pc = "eval"
    /\ steps >= 2
    /\ transition[2] = "q"
    /\ head >= 1
    /\ head < Len(input)
    /\ tape[head + 1] = transition[1]
    /\ tape[head + 1] # input[head + 1]
    /\ Len(tape) = Len(input)

\* C18: right after setTape() on any line, the empty and the all-whitespace
\* line included, the machine is in state 0 with the head on an existing
\* cell, so the first read of tape[head] is in bounds.
C18_HeadOnTapeAfterLoad ==
    (pc = "eval" /\ steps = 0) => (state = 0 /\ 0 <= head /\ head < Len(tape))

\* every row names a state of the machine or the sentinel as its next state
NextStatesInRange ==
    \A k \in 1..Len(transitions) :
        PyInt(transitions[k][5]) \in (0..(nstates - 1)) \cup {HaltState}

\* C19: with a complete table whose next states are states of the machine or
\* the sentinel, and an input over the alphabet, every iteration runs in a
\* state of [0, nstates), its index state*nsymbols + position lies in
\* [0, nstates*nsymbols), and no lookup fails.
C19_LookupAlwaysInRange ==
    (CompleteTable /\ NextStatesInRange /\ InputInAlphabet)
        => /\ StepReady => state \in 0..(nstates - 1)
           /\ ReadsSymbol
                => /\ TableIndex(state, nsymbols, PyIndex(symbols, CurChar))
                        \in 0..(nstates * nsymbols - 1)
                   /\ LookupOk(transitions, state, nsymbols, PyIndex(symbols, CurChar))
           /\ (pc = "crashed" /\ err = "IndexError") => tape = <<>>

\* a run over such a table is in state 1 on the last symbol of the alphabet,
\* about to read the last row
C19_Witness ==
    /\ CompleteTable
    /\ NextStatesInRange
    /\ InputInAlphabet
    /\ ReadsSymbol
    /\ state = nstates - 1
    /\ state = 1
    /\ steps >= 1
    /\ TableIndex(state, nsymbols, PyIndex(symbols, CurChar)) = nstates * nsymbols - 1

\* C20: during a run every step leaves the length of the tape as it was or
\* adds exactly one cell, and it adds one only when the head moves right from
\* the last cell or left from the first.
C20_TapeGrowsOnlyAtTheEnds ==
    [][(pc = "eval" /\ pc' \in {"eval", "crashed"})
         => /\ Len(tape') \in {Len(tape), Len(tape) + 1}
            /\ (Len(tape') = Len(tape) + 1)
                 => /\ LooksUp
                    /\ \/ CurRow[4] = "d" /\ head = Len(tape) - 1
                       \/ CurRow[4] = "i" /\ head = 0]_vars

\* a run has extended the tape twice
C20_Witness ==
    /\ pc = "eval"
    /\ steps >= 2
    /\ Len(tape) = Len(input) + 2
    /\ head = Len(tape) - 1

====
